---- MODULE Spec2Model ----
(***************************************************************************)
(* Model of compile-commands-merger (src/src/main.rs): the merge-and-watch *)
(* loop.  The process scans the configured directories for                 *)
(* compile_commands.json files, merges their entries into a map keyed by   *)
(* the `file` field, writes the merged array, then watches the directories *)
(* and reloads + rewrites on every relevant filesystem event.              *)
(*                                                                         *)
(* The filesystem, the notify watcher thread and whoever rewrites the      *)
(* input files are the environment (the Env... actions).                   *)
(***************************************************************************)
EXTENDS Integers, Sequences, FiniteSets, TLC

(***************************************************************************)
(* Bounds of the model.                                                    *)
(***************************************************************************)
\* longest array the environment writes into an input file
MaxLen == 2
\* content changes (write, remove, rename) the environment performs
MaxWrites == 1
\* other things the environment does (touch, access, watcher error, chmod)
MaxNotes == 1
\* capacity of the channel between the watcher thread and the loop
MaxQueue == 2

(***************************************************************************)
(* Paths are sequences of components, as std::path::Path compares them.    *)
(***************************************************************************)
\* the literal of main.rs:161 and the default of --input / --output
CCJ == "compile_commands.json"
\* another input filename the user may configure with --input
ALT == "cc.json"

R == <<"R">>
RB == <<"R", "b">>
Q == <<"Q">>
CWD == <<>>

AllDirs == {R, RB, Q}
InputFiles == {R \o <<CCJ>>, RB \o <<CCJ>>, RB \o <<ALT>>, Q \o <<CCJ>>}
OutJson == <<"out.json">>
AllFiles == InputFiles \cup {OutJson}

Parent(p) == SubSeq(p, 1, Len(p) - 1)

\* Path::ends_with: `child` is a suffix of `p`, whole components only
PathEndsWith(p, child) ==
    /\ Len(child) <= Len(p)
    /\ SubSeq(p, Len(p) - Len(child) + 1, Len(p)) = child

\* Path::starts_with
PathStartsWith(p, base) ==
    /\ Len(base) <= Len(p)
    /\ SubSeq(p, 1, Len(base)) = base

(***************************************************************************)
(* Records.  A JSON object is a function from its keys to strings; a       *)
(* CompileCommand has all four fields, `output` being an Option (a         *)
(* sequence of length 0 or 1).                                             *)
(***************************************************************************)
Keys == {"foo.c", "bar.c"}

o1 == [directory |-> "d", command |-> "c1", file |-> "foo.c"]
o2 == [directory |-> "d", command |-> "c2", file |-> "foo.c", output |-> "o"]
o3 == [directory |-> "d", command |-> "c1", file |-> "bar.c"]
\* an array element serde rejects (here: the required `directory` is missing)
oBad == [command |-> "c1", file |-> "foo.c"]

Elems == {o1, o2, o3, oBad}

None == <<>>
Some(x) == <<x>>

\* #[derive(Deserialize)] for CompileCommand: the three String fields are
\* required, a missing `output` becomes None
IsRecordShaped(obj) == {"directory", "command", "file"} \subseteq DOMAIN obj

Deserialize(obj) ==
    [directory |-> obj.directory,
     command   |-> obj.command,
     file      |-> obj.file,
     output    |-> IF "output" \in DOMAIN obj THEN Some(obj.output) ELSE None]

\* a serializer that never emits `output`
Serialize_no_output(cmd) ==
    [directory |-> cmd.directory, command |-> cmd.command, file |-> cmd.file]

\* #[derive(Serialize)] with skip_serializing_if = "Option::is_none"
Serialize(cmd) ==
    IF cmd.output = None
    THEN [directory |-> cmd.directory, command |-> cmd.command, file |-> cmd.file]
    ELSE [directory |-> cmd.directory, command |-> cmd.command, file |-> cmd.file,
          output |-> cmd.output[1]]

(***************************************************************************)
(* File contents: absent, or a JSON array of objects.                      *)
(***************************************************************************)
Missing == [present |-> FALSE, items |-> <<>>]
File(items) == [present |-> TRUE, items |-> items]

SeqsUpTo(S, n) == UNION {[1..k -> S] : k \in 0..n}
Contents == {File(s) : s \in SeqsUpTo(Elems, MaxLen)}

FileAt(fsx, p) == IF p \in DOMAIN fsx THEN fsx[p] ELSE Missing

Range(s) == {s[i] : i \in DOMAIN s}
Perms(S) == {s \in [1..Cardinality(S) -> S] : Range(s) = S}

Ok(cmds) == [ok |-> TRUE, commands |-> cmds]
Err == [ok |-> FALSE, commands |-> <<>>]

\* a reader that hands back the elements it parsed before the bad one
RECURSIVE from_reader_partial(_)
from_reader_partial(items) ==
    IF items = <<>> THEN Ok(<<>>)
    ELSE IF ~IsRecordShaped(Head(items)) THEN Ok(<<>>)
    ELSE Ok(<<Deserialize(Head(items))>> \o from_reader_partial(Tail(items)).commands)

\* serde_json::from_reader::<Vec<CompileCommand>>: the whole array is parsed
\* before anything is returned; the first bad element fails the call
RECURSIVE from_reader(_)
from_reader(items) ==
    IF items = <<>> THEN Ok(<<>>)
    ELSE IF ~IsRecordShaped(Head(items)) THEN Err
    ELSE LET rest == from_reader(Tail(items))
         IN  IF rest.ok THEN Ok(<<Deserialize(Head(items))>> \o rest.commands)
             ELSE Err

read_compile_commands_partial(fsx, path) ==
    IF ~FileAt(fsx, path).present THEN Err
    ELSE from_reader_partial(FileAt(fsx, path).items)

\* read_compile_commands: File::open(path)? then from_reader(file)?
read_compile_commands(fsx, path) ==
    IF ~FileAt(fsx, path).present THEN Err
    ELSE from_reader(FileAt(fsx, path).items)

(***************************************************************************)
(* The Record Store: HashMap<String, CompileCommand>, a function whose     *)
(* domain is the set of keys present.                                      *)
(***************************************************************************)
EmptyMap == [k \in {} |-> None]

\* HashMap::insert: add or replace
insert_keep_old(m, k, v) ==
    IF k \in DOMAIN m THEN m ELSE [x \in DOMAIN m \cup {k} |-> IF x = k THEN v ELSE m[x]]

insert(m, k, v) == [x \in DOMAIN m \cup {k} |-> IF x = k THEN v ELSE m[x]]

\* a loop that keys the entries by their command line
RECURSIVE insert_all_by_command(_, _)
insert_all_by_command(m, commands) ==
    IF commands = <<>> THEN m
    ELSE insert_all_by_command(insert(m, Head(commands).command, Head(commands)),
                               Tail(commands))

\* for command in commands { data.insert(command.file.clone(), command); }
RECURSIVE insert_all(_, _)
insert_all(m, commands) ==
    IF commands = <<>> THEN m
    ELSE insert_all(insert(m, Head(commands).file, Head(commands)), Tail(commands))

(***************************************************************************)
(* Discovery.  walkdir yields a directory, then descends into it before it *)
(* goes on with the directory's siblings; the entries of one directory     *)
(* come in the order read_dir returns them (ord[d], any permutation).      *)
(***************************************************************************)
\* what read_dir lists in directory d: the files present and the subdirectories
Entries(fsx, ex, d) ==
    {f \in DOMAIN fsx : fsx[f].present /\ Parent(f) = d}
        \cup {s \in ex : Parent(s) = d}

\* every way the directories' entries can be enumerated
Orders(fsx, ex) ==
    {(R :> a) @@ (RB :> b) @@ (Q :> c) :
        a \in Perms(Entries(fsx, ex, R)),
        b \in Perms(Entries(fsx, ex, RB)),
        c \in Perms(Entries(fsx, ex, Q))}

\* entry.file_type().is_file()
is_file(fsx, e) == e \in DOMAIN fsx /\ fsx[e].present

\* the while-let loop over the entries of one directory; a matching file is
\* pushed and skip_current_dir() drops the rest of the directory it is in
RECURSIVE walk(_, _, _, _)
walk(fsx, ord, entries, name) ==
    IF entries = <<>> THEN <<>>
    ELSE LET e == Head(entries)
         IN  IF is_file(fsx, e)
             THEN IF PathEndsWith(e, <<name>>)
                  THEN <<e>>
                  ELSE walk(fsx, ord, Tail(entries), name)
             ELSE walk(fsx, ord, ord[e], name) \o walk(fsx, ord, Tail(entries), name)

\* find_compile_commands(root): the filename is the literal, whatever --input says
find_compile_commands(fsx, ex, ord, root) ==
    IF root \in ex THEN walk(fsx, ord, ord[root], CCJ) ELSE <<>>

\* the paths CombinedState::new visits, in order: for dir in directories, for
\* path in find_compile_commands(dir)
RECURSIVE discovered(_, _, _, _)
discovered(fsx, ex, ord, dirs) ==
    IF dirs = <<>> THEN <<>>
    ELSE find_compile_commands(fsx, ex, ord, Head(dirs))
            \o discovered(fsx, ex, ord, Tail(dirs))

\* a load that makes the store the contents of the file just read
add_entries_replacing(m, fsx, path) ==
    LET res == read_compile_commands(fsx, path)
    IN  IF res.ok THEN insert_all(EmptyMap, res.commands) ELSE EmptyMap

\* add_entries_from_file, and the body of new's inner loop: on Ok insert every
\* command, on Err do nothing
add_entries_from_file(m, fsx, path) ==
    LET res == read_compile_commands(fsx, path)
    IN  IF res.ok THEN insert_all(m, res.commands) ELSE m

\* a merge that stops after the first discovered file
load_first_only(m, fsx, paths) ==
    IF paths = <<>> THEN m ELSE add_entries_from_file(m, fsx, Head(paths))

RECURSIVE load_all(_, _, _)
load_all(m, fsx, paths) ==
    IF paths = <<>> THEN m
    ELSE load_all(add_entries_from_file(m, fsx, Head(paths)), fsx, Tail(paths))

\* CombinedState::new
new(fsx, ex, ord, dirs) == load_all(EmptyMap, fsx, discovered(fsx, ex, ord, dirs))

\* the println! of a successful load
LoadLog(fsx, paths, what) ==
    {<<what, paths[i]>> : i \in {j \in DOMAIN paths : read_compile_commands(fsx, paths[j]).ok}}

(***************************************************************************)
(* Writer.  self.data.values() iterates in the map's own order: kord, a    *)
(* permutation of the keys.                                                *)
(***************************************************************************)
\* a writer that leaves out the value the map's iteration yields last
RECURSIVE values_truncated(_, _)
values_truncated(m, kord) ==
    IF Len(kord) <= 1 THEN <<>>
    ELSE IF Head(kord) \in DOMAIN m
         THEN <<m[Head(kord)]>> \o values_truncated(m, Tail(kord))
         ELSE values_truncated(m, Tail(kord))

RECURSIVE values(_, _)
values(m, kord) ==
    IF kord = <<>> THEN <<>>
    ELSE IF Head(kord) \in DOMAIN m
         THEN <<m[Head(kord)]>> \o values(m, Tail(kord))
         ELSE values(m, Tail(kord))

\* serde_json::to_string_pretty(&commands)
to_string_pretty(commands) == [i \in DOMAIN commands |-> Serialize(commands[i])]

\* fs::write(output_path, content) succeeds
can_write(ex, wr, out) == wr /\ (Parent(out) = CWD \/ Parent(out) \in ex)

\* what write_to_file leaves in the output file
written(m, kord) == File(to_string_pretty(values(m, kord)))

(***************************************************************************)
(* State.                                                                  *)
(***************************************************************************)
VARIABLES
    directories,    \* args.directories
    input_file,     \* args.input
    output_file,    \* args.output, as a path
    existing,       \* the directories that exist on disk
    fs,             \* the files: path -> contents
    writable,       \* whether the output file can be written
    pc,             \* where main is: main, merged, written, watching, exited, panicked
    panic,          \* the message of the expect() that failed, or ""
    data,           \* combined_state.data
    found,          \* the paths new() discovered, in load order
    queue,          \* rx: what the watcher thread has sent and the loop not yet received
    watched,        \* the roots registered with watcher.watch
    log,            \* what was printed: a set of <<message, path>>
    calls,          \* the Loader/Writer invocations of the last loop iteration
    last,           \* history: the item the loop received last
    scanfs,         \* history: the files as new() read them
    lastIn,         \* history: per key, the record ingested last
    unseen,         \* history: input files rewritten after the initial write and not reloaded since
    foreign,        \* history: the environment has changed the output file
    nwrites,        \* content changes made by the environment so far
    nnotes          \* other environment steps so far

vars == <<directories, input_file, output_file, existing, fs, writable, pc, panic,
          data, found, queue, watched, log, calls, last, scanfs, lastIn, unseen,
          foreign, nwrites, nnotes>>

args == <<directories, input_file, output_file>>
hist == <<last, scanfs, lastIn, unseen, foreign>>

(***************************************************************************)
(* Initial states: a command line, a directory tree, no process state.     *)
(***************************************************************************)
Configs ==
    { [directories |-> <<>>,     input |-> CCJ, output |-> OutJson],
      [directories |-> <<R, Q>>, input |-> CCJ, output |-> OutJson],
      [directories |-> <<R, Q>>, input |-> ALT, output |-> OutJson],
      [directories |-> <<R, Q>>, input |-> CCJ, output |-> R \o <<CCJ>>] }

ExistingSets == {{R, RB, Q}, {R, RB}, {}}

\* what an input file holds at the start, when it is there
Seed(p) ==
    IF p = R \o <<CCJ>> THEN File(<<o1>>)
    ELSE IF p = RB \o <<CCJ>> THEN File(<<o3>>)
    ELSE IF p = OutJson THEN Missing
    ELSE File(<<o2>>)

\* the files that are there at the start whenever their directory is
SeededFiles == {RB \o <<ALT>>, Q \o <<CCJ>>}

InitFS(ex) ==
    {f \in [AllFiles -> {Missing} \cup {File(<<e>>) : e \in Elems}] :
        \A p \in AllFiles :
            /\ f[p] \in {Missing, Seed(p)}
            /\ Parent(p) \notin ex => f[p] = Missing
            /\ Parent(p) \in ex /\ p \in SeededFiles => f[p] = Seed(p)}

NoItem == [tag |-> "none", kind |-> <<"Other", "">>, paths |-> <<>>]

Init ==
    /\ \E c \in Configs :
        /\ directories = c.directories
        /\ input_file = c.input
        /\ output_file = c.output
    /\ existing \in ExistingSets
    /\ fs \in InitFS(existing)
    /\ writable = TRUE
    /\ pc = "main"
    /\ panic = ""
    /\ data = EmptyMap
    /\ found = <<>>
    /\ queue = <<>>
    /\ watched = {}
    /\ log = {}
    /\ calls = <<>>
    /\ last = NoItem
    /\ scanfs = fs
    /\ lastIn = EmptyMap
    /\ unseen = {}
    /\ foreign = FALSE
    /\ nwrites = 0
    /\ nnotes = 0

(***************************************************************************)
(* History operators.                                                      *)
(***************************************************************************)
\* per key, the element of cmds with the greatest index that has that key
LastPerKey(cmds) ==
    [k \in {cmds[i].file : i \in DOMAIN cmds} |->
        cmds[CHOOSE i \in DOMAIN cmds :
                /\ cmds[i].file = k
                /\ \A j \in DOMAIN cmds : cmds[j].file = k => j <= i]]

Override(m, cmds) ==
    LET l == LastPerKey(cmds)
    IN  [k \in DOMAIN m \cup DOMAIN l |-> IF k \in DOMAIN l THEN l[k] ELSE m[k]]

\* the load fails: the file is not there, or some element is not a Record
Fails(fsx, p) ==
    \/ ~FileAt(fsx, p).present
    \/ \E i \in DOMAIN FileAt(fsx, p).items : ~IsRecordShaped(FileAt(fsx, p).items[i])

\* the Records of a well-formed file, in array order
RecordsOf(fsx, p) ==
    [i \in DOMAIN FileAt(fsx, p).items |-> Deserialize(FileAt(fsx, p).items[i])]

\* the Records of the well-formed files among `paths`, in load order
RECURSIVE GoodRecords(_, _)
GoodRecords(fsx, paths) ==
    IF paths = <<>> THEN <<>>
    ELSE (IF Fails(fsx, Head(paths)) THEN <<>> ELSE RecordsOf(fsx, Head(paths)))
            \o GoodRecords(fsx, Tail(paths))

Under(p, roots) == \E r \in roots : PathStartsWith(p, r)

\* p is an input file as the command line describes them
IsInput(p) ==
    /\ PathEndsWith(p, <<input_file>>)
    /\ Under(p, Range(directories) \cap existing)

(***************************************************************************)
(* The watcher thread (notify): a change of a path under a registered root *)
(* is sent down the channel.                                               *)
(***************************************************************************)
Event(kind, paths) == [tag |-> "event", kind |-> kind, paths |-> paths]
ErrorItem == [tag |-> "error", kind |-> <<"Other", "">>, paths |-> <<>>]

\* notify::EventKind, with the sub-kinds the model uses
ModifyData == <<"Modify", "Data">>
ModifyMetadata == <<"Modify", "Metadata">>
ModifyName == <<"Modify", "Name">>
CreateFile == <<"Create", "File">>
RemoveFile == <<"Remove", "File">>
AccessClose == <<"Access", "Close">>
OtherKind == <<"Other", "">>

Notify(q, roots, kind, paths) ==
    IF \E i \in DOMAIN paths : Under(paths[i], roots)
    THEN Append(q, Event(kind, paths))
    ELSE q

WriteKind(fsx, p) == IF fsx[p].present THEN ModifyData ELSE CreateFile

(***************************************************************************)
(* main.                                                                   *)
(***************************************************************************)
Println(msg, path) == {<<msg, path>>}

\* main, lines 97-100: no directories, report and return
MainUsage ==
    /\ pc = "main"
    /\ directories = <<>>
    /\ pc' = "exited"
    /\ log' = log \cup Println("Error: No directories specified", <<>>)
    /\ UNCHANGED <<args, existing, fs, writable, panic, data, found, queue, watched,
                   calls, hist, nwrites, nnotes>>

\* a main that goes on to combine without looking at the directory list
MainCombineUnchecked ==
    /\ pc = "main"
    /\ \E ord \in Orders(fs, existing) :
        /\ found' = discovered(fs, existing, ord, directories)
        /\ data' = new(fs, existing, ord, directories)
    /\ log' = log \cup LoadLog(fs, found', "Adding entries from")
    /\ scanfs' = fs
    /\ lastIn' = LastPerKey(GoodRecords(fs, found'))
    /\ pc' = "merged"
    /\ UNCHANGED <<args, existing, fs, writable, panic, queue, watched, calls, last,
                   unseen, foreign, nwrites, nnotes>>

\* main, lines 102-103: CombinedState::new(&directories_to_watch)
MainCombine ==
    /\ pc = "main"
    /\ directories # <<>>
    /\ \E ord \in Orders(fs, existing) :
        /\ found' = discovered(fs, existing, ord, directories)
        /\ data' = new(fs, existing, ord, directories)
    /\ log' = log \cup LoadLog(fs, found', "Adding entries from")
    /\ scanfs' = fs
    /\ lastIn' = LastPerKey(GoodRecords(fs, found'))
    /\ pc' = "merged"
    /\ UNCHANGED <<args, existing, fs, writable, panic, queue, watched, calls, last,
                   unseen, foreign, nwrites, nnotes>>

\* an initial write whose failure is only reported
MainWriteLenient ==
    /\ pc = "merged"
    /\ IF can_write(existing, writable, output_file)
       THEN /\ \E kord \in Perms(Keys) :
                fs' = [fs EXCEPT ![output_file] = written(data, kord)]
            /\ log' = log \cup Println("Updated combined compile_commands.json", <<>>)
       ELSE /\ log' = log \cup Println("Failed to write initial combined file", <<>>)
            /\ fs' = fs
    /\ pc' = "written"
    /\ UNCHANGED <<args, existing, writable, panic, data, found, queue, watched, calls,
                   hist, nwrites, nnotes>>

\* main, lines 104-106: write_to_file(output).expect(...)
MainWrite ==
    /\ pc = "merged"
    /\ IF can_write(existing, writable, output_file)
       THEN /\ \E kord \in Perms(Keys) :
                fs' = [fs EXCEPT ![output_file] = written(data, kord)]
            /\ log' = log \cup Println("Updated combined compile_commands.json", <<>>)
            /\ pc' = "written"
            /\ panic' = panic
       ELSE /\ pc' = "panicked"
            /\ panic' = "Failed to write initial combined file"
            /\ UNCHANGED <<fs, log>>
    /\ UNCHANGED <<args, existing, writable, data, found, queue, watched, calls, hist,
                   nwrites, nnotes>>

(***************************************************************************)
(* start_watching, lines 114-128: create the watcher, register the roots.  *)
(***************************************************************************)
\* watcher.watch(dir, Recursive): notify refuses a path that is not there
watch(ex, dir) == dir \in ex

\* the loop over directories: [watched, log, panic]
RECURSIVE register_unchecked(_, _, _)
register_unchecked(ex, dirs, acc) ==
    IF dirs = <<>> \/ acc.panic # "" THEN acc
    ELSE LET dir == Head(dirs)
         IN  IF watch(ex, dir)
             THEN register_unchecked(ex, Tail(dirs),
                     [acc EXCEPT !.watched = @ \cup {dir},
                                 !.log = @ \cup Println("Watching directory", dir)])
             ELSE [acc EXCEPT !.panic = "Failed to watch directory"]

RECURSIVE register(_, _, _)
register(ex, dirs, acc) ==
    IF dirs = <<>> \/ acc.panic # "" THEN acc
    ELSE LET dir == Head(dirs)
         IN  IF dir \in ex
             THEN IF watch(ex, dir)
                  THEN register(ex, Tail(dirs),
                          [acc EXCEPT !.watched = @ \cup {dir},
                                      !.log = @ \cup Println("Watching directory", dir)])
                  ELSE [acc EXCEPT !.panic = "Failed to watch directory"]
             ELSE register(ex, Tail(dirs),
                     [acc EXCEPT !.log = @ \cup Println("Warning: Directory does not exist", dir)])

register_roots(ex, dirs) == register(ex, dirs, [watched |-> {}, log |-> {}, panic |-> ""])

StartWatching ==
    /\ pc = "written"
    /\ \E created \in BOOLEAN :
        IF ~created
        THEN /\ pc' = "panicked"
             /\ panic' = "Failed to create watcher"
             /\ log' = log \cup Println("Watching for changes", <<>>)
             /\ UNCHANGED watched
        ELSE LET res == register_roots(existing, directories)
             IN  /\ watched' = res.watched
                 /\ log' = log \cup Println("Watching for changes", <<>>) \cup res.log
                 /\ panic' = res.panic
                 /\ pc' = IF res.panic = "" THEN "watching" ELSE "panicked"
    /\ UNCHANGED <<args, existing, fs, writable, data, found, queue, calls, hist,
                   nwrites, nnotes>>

(***************************************************************************)
(* start_watching, lines 131-149: one iteration of the event loop.         *)
(***************************************************************************)
\* a loop that acts on events of every kind
is_relevant_any(kind) == TRUE

\* matches!(event.kind, EventKind::Modify(_) | EventKind::Create(_))
is_relevant(kind) == kind[1] \in {"Modify", "Create"}

\* a loop that processes every path an event carries
is_target_any(path) == TRUE

\* path.ends_with(input_file)
is_target(path) == PathEndsWith(path, <<input_file>>)

\* a body that loads and leaves the rewrite of the output for later
process_path_no_write(st, path, kord) ==
    [st EXCEPT
        !.data = add_entries_from_file(st.data, st.fs, path),
        !.log = @ \cup Println("Change detected in", path)
                  \cup LoadLog(st.fs, <<path>>, "Adding/Updating entries from"),
        !.calls = @ \o << <<"load", path>>, <<"write", output_file>> >>,
        !.lastIn = IF Fails(st.fs, path) THEN @ ELSE Override(@, RecordsOf(st.fs, path)),
        !.unseen = @ \ {path}]

\* the body of `if path.ends_with(input_file)`: load, then write or panic.
\* st is the loop's view: [data, fs, posted, log, panic, calls, lastIn, unseen]
process_path(st, path, kord) ==
    LET d2 == add_entries_from_file(st.data, st.fs, path)
        ok == can_write(existing, writable, output_file)
        loaded == [st EXCEPT
            !.data = d2,
            !.log = @ \cup Println("Change detected in", path)
                      \cup LoadLog(st.fs, <<path>>, "Adding/Updating entries from"),
            !.calls = @ \o << <<"load", path>>, <<"write", output_file>> >>,
            !.lastIn = IF Fails(st.fs, path) THEN @ ELSE Override(@, RecordsOf(st.fs, path)),
            !.unseen = @ \ {path}]
    IN  IF ok
        THEN [loaded EXCEPT
            !.fs = [@ EXCEPT ![output_file] = written(d2, kord)],
            !.posted = Notify(@, watched, WriteKind(st.fs, output_file), <<output_file>>),
            !.log = @ \cup Println("Updated combined compile_commands.json", <<>>)]
        ELSE [loaded EXCEPT !.panic = "Failed to update combined file"]

\* for path in event.paths { ... }; a panic ends the process there
RECURSIVE process_paths(_, _, _)
process_paths(st, paths, kords) ==
    IF paths = <<>> \/ st.panic # "" THEN st
    ELSE IF is_target(Head(paths))
         THEN process_paths(process_path(st, Head(paths), Head(kords)),
                            Tail(paths), Tail(kords))
         ELSE process_paths(st, Tail(paths), Tail(kords))

\* an error item that ends the process
on_error_fatal(st) == [st EXCEPT !.panic = "Notify error"]

\* Ok(Err(e)) => eprintln!("Notify error: {:?}", e)
on_error(st) == [st EXCEPT !.log = @ \cup Println("Notify error", <<>>)]

\* match rx.recv() { ... }
on_item(st, item, kords) ==
    IF item.tag = "error" THEN on_error(st)
    ELSE IF is_relevant(item.kind) THEN process_paths(st, item.paths, kords)
    ELSE st

\* a receiver that takes the item sent last
recv_newest(q) == [item |-> q[Len(q)], rest |-> SubSeq(q, 1, Len(q) - 1)]

\* rx.recv() on the mpsc channel: the item sent first
recv(q) == [item |-> Head(q), rest |-> Tail(q)]

View ==
    [data |-> data, fs |-> fs, posted |-> <<>>, log |-> log, panic |-> "",
     calls |-> <<>>, lastIn |-> lastIn, unseen |-> unseen]

Recv ==
    /\ pc = "watching"
    /\ queue # <<>>
    /\ \E kords \in [1..Len(recv(queue).item.paths) -> Perms(Keys)] :
        \E st \in {on_item(View, recv(queue).item, kords)} :
            /\ Len(recv(queue).rest) + Len(st.posted) <= MaxQueue
            /\ queue' = recv(queue).rest \o st.posted
            /\ data' = st.data
            /\ fs' = st.fs
            /\ log' = st.log
            /\ panic' = st.panic
            /\ pc' = IF st.panic = "" THEN "watching" ELSE "panicked"
            /\ calls' = st.calls
            /\ last' = recv(queue).item
            /\ lastIn' = st.lastIn
            /\ unseen' = st.unseen
    /\ UNCHANGED <<args, existing, writable, found, watched, scanfs, foreign, nwrites,
                   nnotes>>

(***************************************************************************)
(* The environment: whoever rewrites the input files, and the watcher      *)
(* thread reporting it.  It acts while the process runs.                   *)
(***************************************************************************)
Running == pc \in {"main", "merged", "written", "watching"}

\* rewrites made once the initial write is done are the ones to propagate
Track(p) ==
    IF pc \in {"written", "watching"} /\ IsInput(p) THEN unseen \cup {p} ELSE unseen

Room(roots, paths) ==
    (\E i \in DOMAIN paths : Under(paths[i], roots)) => Len(queue) < MaxQueue

\* a build system writes an input file (creating it when absent)
EnvWrite ==
    /\ Running
    /\ nwrites < MaxWrites
    /\ \E p \in InputFiles, c \in Contents :
        /\ Parent(p) \in existing
        /\ Room(watched, <<p>>)
        /\ fs' = [fs EXCEPT ![p] = c]
        /\ queue' = Notify(queue, watched, WriteKind(fs, p), <<p>>)
        /\ unseen' = Track(p)
        /\ foreign' = (foreign \/ p = output_file)
    /\ nwrites' = nwrites + 1
    /\ UNCHANGED <<args, existing, writable, pc, panic, data, found, watched, log,
                   calls, last, scanfs, lastIn, nnotes>>

\* an input file is deleted
EnvRemove ==
    /\ Running
    /\ nwrites < MaxWrites
    /\ \E p \in InputFiles :
        /\ fs[p].present
        /\ Room(watched, <<p>>)
        /\ fs' = [fs EXCEPT ![p] = Missing]
        /\ queue' = Notify(queue, watched, RemoveFile, <<p>>)
        /\ unseen' = unseen \ {p}
        /\ foreign' = (foreign \/ p = output_file)
    /\ nwrites' = nwrites + 1
    /\ UNCHANGED <<args, existing, writable, pc, panic, data, found, watched, log,
                   calls, last, scanfs, lastIn, nnotes>>

\* a file is moved over another path (one event carrying both paths)
EnvRename ==
    /\ Running
    /\ nwrites < MaxWrites
    /\ \E from \in InputFiles, to \in InputFiles :
        /\ from # to
        /\ fs[from].present
        /\ Parent(to) \in existing
        /\ Room(watched, <<from, to>>)
        /\ fs' = [fs EXCEPT ![from] = Missing, ![to] = fs[from]]
        /\ queue' = Notify(queue, watched, ModifyName, <<from, to>>)
        /\ unseen' = IF pc \in {"written", "watching"} /\ IsInput(to)
                     THEN (unseen \ {from}) \cup {to} ELSE unseen \ {from}
        /\ foreign' = (foreign \/ output_file \in {from, to})
    /\ nwrites' = nwrites + 1
    /\ UNCHANGED <<args, existing, writable, pc, panic, data, found, watched, log,
                   calls, last, scanfs, lastIn, nnotes>>

TouchKinds == {ModifyMetadata, AccessClose, OtherKind}

\* something happens to a file that leaves its contents alone
EnvTouch ==
    /\ pc = "watching"
    /\ nnotes < MaxNotes
    /\ Len(queue) < MaxQueue
    /\ \E p \in InputFiles, kind \in TouchKinds :
        /\ fs[p].present
        /\ Under(p, watched)
        /\ queue' = Append(queue, Event(kind, <<p>>))
    /\ nnotes' = nnotes + 1
    /\ UNCHANGED <<args, existing, fs, writable, pc, panic, data, found, watched, log,
                   calls, hist, nwrites>>

\* the watch subsystem reports an error of its own
EnvError ==
    /\ pc = "watching"
    /\ nnotes < MaxNotes
    /\ Len(queue) < MaxQueue
    /\ queue' = Append(queue, ErrorItem)
    /\ nnotes' = nnotes + 1
    /\ UNCHANGED <<args, existing, fs, writable, pc, panic, data, found, watched, log,
                   calls, hist, nwrites>>

\* the output file becomes unwritable, or writable again
EnvChmod ==
    /\ Running
    /\ nnotes < MaxNotes
    /\ writable' = ~writable
    /\ nnotes' = nnotes + 1
    /\ UNCHANGED <<args, existing, fs, pc, panic, data, found, queue, watched, log,
                   calls, hist, nwrites>>

Next ==
    \/ MainUsage
    \/ MainCombine
    \/ MainWrite
    \/ StartWatching
    \/ Recv
    \/ EnvWrite
    \/ EnvRemove
    \/ EnvRename
    \/ EnvTouch
    \/ EnvError
    \/ EnvChmod

Spec == Init /\ [][Next]_vars

(***************************************************************************)
(* Properties.                                                             *)
(***************************************************************************)
\* a step of the event loop: the environment's steps all count themselves
RecvStep ==
    /\ pc = "watching"
    /\ queue # <<>>
    /\ nwrites' = nwrites
    /\ nnotes' = nnotes
    /\ vars' # vars

DistinctKeys(cmds) ==
    \A i, j \in DOMAIN cmds : i # j => cmds[i].file # cmds[j].file

\* the paths of an event the loop acts on
Targets(item) == SelectSeq(item.paths, LAMBDA q : PathEndsWith(q, <<input_file>>))

\* C1: last-write-wins.  For every key that occurs in a loaded Record, the
\* store holds exactly (all four fields) the Record with that key that was
\* ingested last, in the initial merge and after every watch-triggered load.
C1_LastWriteWins == data = lastIn

\* C1 witness: a key ingested by the initial merge has since been replaced by
\* a different Record in a watch-triggered load.
C1_Witness ==
    /\ pc = "watching"
    /\ calls # <<>>
    /\ \E i \in DOMAIN GoodRecords(scanfs, found) :
        LET old == GoodRecords(scanfs, found)[i]
        IN  /\ old.file \in DOMAIN data
            /\ old = LastPerKey(GoodRecords(scanfs, found))[old.file]
            /\ data[old.file] # old
            /\ data[old.file].command # old.command

\* C2: union of distinct keys.  When the Records of the discovered well-formed
\* files have pairwise distinct keys, the initial write leaves exactly those
\* Records in the output, one array element each.
C2_UnionOfDistinctKeys ==
    [][(pc = "merged" /\ pc' = "written"
            /\ DistinctKeys(GoodRecords(scanfs, found)))
        => /\ Range(fs'[output_file].items)
                = {Serialize(r) : r \in Range(GoodRecords(scanfs, found))}
           /\ Len(fs'[output_file].items) = Len(GoodRecords(scanfs, found))]_vars

\* C2 witness: two discovered files, one Record for foo.c and one for bar.c,
\* and the initial output holds the two.
C2_Witness ==
    /\ pc = "written"
    /\ Len(found) = 2
    /\ \A i \in DOMAIN found : Len(GoodRecords(scanfs, <<found[i]>>)) = 1
    /\ DistinctKeys(GoodRecords(scanfs, found))
    /\ {o.file : o \in Range(fs[output_file].items)} = {"foo.c", "bar.c"}
    /\ Len(fs[output_file].items) = 2

\* C3: the Loader is all-or-nothing.  Initial merge: the store is built from
\* the well-formed discovered files alone, each applied in full.  Watch loop:
\* a load of a failing file leaves the store as it was, a load of a
\* well-formed file applies every Record of it.
C3_LoaderAllOrNothing ==
    [][/\ (pc = "main" /\ pc' = "merged")
            => data' = LastPerKey(GoodRecords(fs, found'))
       /\ (RecvStep /\ Head(queue).tag = "event" /\ is_relevant(Head(queue).kind)
                /\ Len(Targets(Head(queue))) = 1)
            => LET p == Targets(Head(queue))[1]
               IN  IF Fails(fs, p)
                   THEN data' = data
                   ELSE data' = Override(data, RecordsOf(fs, p))]_vars

\* C3 witness: the loop has just loaded a file whose array starts with a
\* well-formed Record and has a malformed element after it, and the store
\* (non-empty from the initial merge) holds nothing of it.
C3_Witness ==
    /\ pc = "watching"
    /\ last.tag = "event"
    /\ Len(calls) = 2
    /\ data # EmptyMap
    /\ LET p == calls[1][2]
       IN  /\ fs[p].present
           /\ Len(fs[p].items) = 2
           /\ fs[p].items[1] = o3
           /\ fs[p].items[2] = oBad
           /\ "bar.c" \notin DOMAIN data

\* C4: a failed watch-triggered write does not end the process.
C4_WatchWriteFailureNonFatal ==
    ~(pc = "panicked" /\ panic = "Failed to update combined file")

C6_ChangePropagation ==
    (pc = "watching" /\ queue = <<>>) => unseen = {}

\* C7: pruning.  Discovery reports no file from below a directory in which it
\* reported a file.
C7_Pruning ==
    \A i, j \in DOMAIN found :
        ~(/\ Parent(found[i]) # Parent(found[j])
          /\ PathStartsWith(Parent(found[j]), Parent(found[i])))

\* discovery by the given name
RECURSIVE DiscoveredNamed(_, _, _, _, _)
DiscoveredNamed(fsx, ex, ord, dirs, name) ==
    IF dirs = <<>> THEN <<>>
    ELSE (IF Head(dirs) \in ex THEN walk(fsx, ord, ord[Head(dirs)], name) ELSE <<>>)
            \o DiscoveredNamed(fsx, ex, ord, Tail(dirs), name)

\* C8: Discovery matches the configured input filename, the one the loop
\* filters by: what it returns is a walk for that name.
C8_SameConfiguredName ==
    pc \notin {"main", "exited"}
        => /\ \A i \in DOMAIN found : is_target(found[i])
           /\ \E ord \in Orders(scanfs, existing) :
                found = DiscoveredNamed(scanfs, existing, ord, directories, input_file)

\* C9: a missing root is not fatal.  It is never the reason the process stops;
\* with the watcher created, registration gets to WATCHING with exactly the
\* existing roots watched and a warning for each missing one; the store holds
\* the existing roots' Records only, and an empty array is written when no
\* root exists.
C9_MissingRootNonFatal ==
    /\ panic # "Failed to watch directory"
    /\ pc = "written" => register_roots(existing, directories).panic = ""
    /\ pc = "watching"
        => /\ watched = Range(directories) \cap existing
           /\ \A d \in Range(directories) \ existing :
                <<"Warning: Directory does not exist", d>> \in log
    /\ pc \in {"merged", "written"}
        => /\ \A i \in DOMAIN found : Under(found[i], Range(directories) \cap existing)
           /\ data = LastPerKey(GoodRecords(scanfs, found))
    /\ (pc = "written" /\ Range(directories) \cap existing = {})
        => fs[output_file] = File(<<>>)

\* C9 witness: WATCHING is reached with a configured root missing and the
\* Records of the root that exists in the store.
C9_Witness ==
    /\ pc = "watching"
    /\ Range(directories) \ existing # {}
    /\ watched # {}
    /\ data # EmptyMap

\* C10: an error item from the watcher is logged and nothing else happens; the
\* loop goes on.
C10_WatcherErrorNonFatal ==
    [][(RecvStep /\ Head(queue).tag = "error")
        => /\ pc' = "watching"
           /\ <<"Notify error", <<>>>> \in log'
           /\ calls' = <<>>
           /\ data' = data
           /\ fs' = fs
           /\ queue' = Tail(queue)]_vars

\* C10 witness: the loop has received an error item, is still watching, and
\* has gone on to process the event that came after it.
C10_Witness ==
    /\ pc = "watching"
    /\ <<"Notify error", <<>>>> \in log
    /\ last.tag = "event"
    /\ calls # <<>>


\* the output file holds exactly the Records of the store m, one element each
Mirrors(f, m) ==
    /\ f.present
    /\ Range(f.items) = {Serialize(m[k]) : k \in DOMAIN m}
    /\ Len(f.items) = Cardinality(DOMAIN m)

\* C11: the initial write comes first and its failure is fatal.  From the
\* merged store the process goes on only by a successful full write of the
\* output; a failed initial write ends it with nothing watched and no event
\* consumed, and it takes no step afterwards.  Roots are registered and events
\* consumed only after that write.
C11_InitialWriteFirst ==
    [][/\ (pc = "merged" /\ pc' # pc)
            => IF can_write(existing, writable, output_file)
               THEN pc' = "written" /\ Mirrors(fs'[output_file], data)
               ELSE /\ pc' = "panicked"
                    /\ panic' = "Failed to write initial combined file"
                    /\ fs' = fs
       /\ (pc' \in {"written", "watching"} /\ pc \notin {"written", "watching"})
            => pc = "merged" /\ pc' = "written"
       /\ (watched' # watched \/ last' # last \/ queue' # queue \/ calls' # calls)
            => pc \in {"written", "watching"}
       /\ (pc = "panicked" /\ panic = "Failed to write initial combined file")
            => (vars' = vars /\ watched = {} /\ last = NoItem /\ queue = <<>>)]_vars

\* C11 witness: the initial write has failed on a non-empty merged store; the
\* process is over, nothing is watched and no event was consumed.
C11_Witness ==
    /\ pc = "panicked"
    /\ panic = "Failed to write initial combined file"
    /\ data # EmptyMap
    /\ watched = {}
    /\ last = NoItem


\* the two files hold the same Records, whatever their order
SameContent(f, g) ==
    /\ f.present = g.present
    /\ Range(f.items) = Range(g.items)
    /\ Len(f.items) = Len(g.items)

\* C12: the Writer is idempotent.  Two writes of the same store give the same
\* set of Records whatever order the map iterates in; a write made when the
\* output already holds the store's Records and no load changed the store
\* leaves the same content; and a write leaves the store as it is.
C12_WriterIdempotent ==
    /\ [](\A k1, k2 \in Perms(Keys) : SameContent(written(data, k1), written(data, k2)))
    /\ [][/\ (pc = "merged" /\ pc' # pc) => data' = data
          /\ (RecvStep /\ calls' # <<>> /\ pc' = "watching" /\ data' = data
                /\ \E k \in Perms(Keys) : fs[output_file] = written(data, k))
                => SameContent(fs'[output_file], fs[output_file])
          /\ (RecvStep /\ calls' # <<>>
                /\ \A i \in DOMAIN Targets(Head(queue)) : Fails(fs, Targets(Head(queue))[i]))
                => data' = data]_vars

\* C12 witness: the loop has written the output again (its load failed, the
\* store is the one of the initial merge) and the output holds the same two
\* Records as before.
C12_Witness ==
    /\ pc = "watching"
    /\ Len(calls) = 2
    /\ Fails(fs, calls[1][2])
    /\ Cardinality(DOMAIN data) = 2
    /\ data = LastPerKey(GoodRecords(scanfs, found))
    /\ Mirrors(fs[output_file], data)


\* the objects of an array have pairwise distinct `file` values
DistinctFiles(items) ==
    \A i, j \in DOMAIN items : i # j => items[i].file # items[j].file

\* C13: key uniqueness.  Every entry of the store sits under the key equal to
\* its own `file` field, in every reachable state; and every array the Writer
\* leaves in the output has no two Records with the same `file`.
C13_KeyUniqueness ==
    /\ [](\A k \in DOMAIN data : data[k].file = k)
    /\ [][/\ (pc = "merged" /\ pc' = "written") => DistinctFiles(fs'[output_file].items)
          /\ (RecvStep /\ calls' # <<>> /\ pc' = "watching")
                => DistinctFiles(fs'[output_file].items)]_vars

\* C13 witness: two input files have brought a Record for the same source
\* file; the store holds one entry for it and the output one Record.
C13_Witness ==
    /\ pc = "watching"
    /\ calls # <<>>
    /\ \E i, j \in DOMAIN GoodRecords(scanfs, found) :
            /\ i # j
            /\ GoodRecords(scanfs, found)[i].file = GoodRecords(scanfs, found)[j].file
            /\ GoodRecords(scanfs, found)[i] # GoodRecords(scanfs, found)[j]
    /\ DOMAIN data = {"foo.c", "bar.c"}
    /\ Len(fs[output_file].items) = 2


UsageError == <<"Error: No directories specified", <<>>>>

\* C14: usage error.  With an empty directory list the process only reports
\* the error and ends: nothing is discovered or merged, the output file is
\* never touched, no root is watched and no event consumed, and after the
\* report the process takes no step.
C14_UsageError ==
    /\ [](directories = <<>>
            => /\ pc \in {"main", "exited"}
               /\ found = <<>> /\ data = EmptyMap
               /\ watched = {} /\ queue = <<>> /\ last = NoItem /\ calls = <<>>
               /\ log = (IF pc = "exited" THEN {UsageError} ELSE {}))
    /\ [][/\ directories = <<>> => fs'[output_file] = fs[output_file]
          /\ (directories = <<>> /\ pc' # pc) => (pc = "main" /\ pc' = "exited")
          /\ pc = "exited" => vars' = vars
          /\ pc' = "exited" => directories = <<>>]_vars

\* C14 witness: the process has ended on the usage error while input files
\* were there to merge, and the output file does not exist.
C14_Witness ==
    /\ pc = "exited"
    /\ directories = <<>>
    /\ UsageError \in log
    /\ fs[R \o <<CCJ>>].present
    /\ ~fs[output_file].present


\* one Loader call then one Writer call per path, in the order of the paths
ExpectedCalls(paths) ==
    [i \in 1..(2 * Len(paths)) |->
        IF i % 2 = 1 THEN <<"load", paths[(i + 1) \div 2]>> ELSE <<"write", output_file>>]

\* C15: per-path processing.  For a content-modified or created event the
\* loop calls, for each carried path that ends with the input filename and in
\* the order carried, the Loader on that path and then the Writer, and nothing
\* for the other paths; with no such path the store and the files are left as
\* they are.  The same holds for the two paths of a rename event the loop acts
\* on, as long as the writes succeed.
C15_PerPathProcessing ==
    [][/\ (RecvStep /\ Head(queue).tag = "event"
                /\ Head(queue).kind \in {ModifyData, CreateFile})
            => /\ calls' = ExpectedCalls(Targets(Head(queue)))
               /\ \A i \in DOMAIN Targets(Head(queue)) :
                    <<"Change detected in", Targets(Head(queue))[i]>> \in log'
               /\ Targets(Head(queue)) = <<>>
                    => (data' = data /\ fs' = fs /\ log' = log /\ pc' = "watching")
       /\ (RecvStep /\ Head(queue).tag = "event" /\ is_relevant(Head(queue).kind)
                /\ can_write(existing, writable, output_file))
            => calls' = ExpectedCalls(Targets(Head(queue)))]_vars

\* C15 witness: a content-modified event for a file with the input filename
\* has been received with the store non-empty; the Loader ran on that path,
\* then the Writer.
C15_Witness ==
    /\ pc = "watching"
    /\ last.tag = "event"
    /\ last.kind = ModifyData
    /\ Targets(last) = last.paths
    /\ data # EmptyMap
    /\ calls = << <<"load", last.paths[1]>>, <<"write", output_file>> >>
    /\ Mirrors(fs[output_file], data)


\* q is an initial part of q2
IsPrefix(q, q2) == Len(q) <= Len(q2) /\ SubSeq(q2, 1, Len(q)) = q

\* the paths the loop loads for an item
LoadsOf(item) ==
    IF item.tag = "event" /\ is_relevant(item.kind) THEN Targets(item) ELSE <<>>

\* C16: serialized event handling.  The loop takes the oldest item of the
\* queue, the items behind it stay in their order, and when the item has been
\* handled the store is the store before it with that item's loads applied
\* one after the other; no other step changes the store, and the watcher
\* thread only appends to the queue.
C16_SerializedHandling ==
    [][/\ RecvStep
            => /\ last' = Head(queue)
               /\ IsPrefix(Tail(queue), queue')
               /\ (pc' = "watching"
                    /\ (Len(LoadsOf(Head(queue))) <= 1
                            \/ output_file \notin Range(LoadsOf(Head(queue)))))
                    => data' = Override(data, GoodRecords(fs, LoadsOf(Head(queue))))
       /\ (pc = "watching" /\ ~RecvStep)
            => (data' = data /\ last' = last /\ IsPrefix(queue, queue'))]_vars

\* C16 witness: an event has been handled (load and write done) and another
\* event that the loop will act on waits in the queue behind it.
C16_Witness ==
    /\ pc = "watching"
    /\ last.tag = "event"
    /\ calls # <<>>
    /\ queue # <<>>
    /\ LoadsOf(Head(queue)) # <<>>
    /\ Head(queue).paths # <<output_file>>
    /\ data # EmptyMap


\* the messages printed on a successful load and on a detected change
RoutineMessages ==
    {"Adding entries from", "Adding/Updating entries from", "Change detected in"}

\* something was printed about a failure to load p
FailureLogged(lg, p) == \E e \in lg : e[2] = p /\ e[1] \notin RoutineMessages

\* C17: Loader failures are reported.  Every file the initial merge or a
\* watch-triggered load fails to read or parse has a log message about the
\* failure.
C17_LoaderFailuresLogged ==
    [][/\ (pc = "main" /\ pc' = "merged")
            => \A i \in DOMAIN found' :
                    Fails(fs, found'[i]) => FailureLogged(log', found'[i])
       /\ (RecvStep /\ Len(LoadsOf(Head(queue))) = 1)
            => (Fails(fs, LoadsOf(Head(queue))[1])
                    => FailureLogged(log', LoadsOf(Head(queue))[1]))]_vars


\* C18: the output mirrors the store at every wait point.  Whenever the loop
\* is at its receive and nothing but the Writer has changed the output file,
\* the output holds exactly the Records of the store.
C18_OutputMirrorsStore ==
    (pc = "watching" /\ ~foreign) => Mirrors(fs[output_file], data)

\* C18 witness: a watch-triggered load has changed the store since the initial
\* merge, the loop waits on an empty queue, and the output holds the new store.
C18_Witness ==
    /\ pc = "watching"
    /\ queue = <<>>
    /\ ~foreign
    /\ calls # <<>>
    /\ data # LastPerKey(GoodRecords(scanfs, found))
    /\ Mirrors(fs[output_file], data)


\* the keys of the Records in the input files that are there
KeysOnDisk ==
    {o.file : o \in UNION {Range(fs[p].items) :
                              p \in {q \in InputFiles : is_target(q) /\ q # output_file}}}

\* C19: the store only grows.  No step removes a key from the store, whatever
\* happens to the input files; and every output the loop writes has a Record
\* for every key the store held before.
C19_StoreOnlyGrows ==
    [][/\ DOMAIN data \subseteq DOMAIN data'
       /\ (RecvStep /\ calls' # <<>> /\ pc' = "watching")
            => DOMAIN data \subseteq {o.file : o \in Range(fs'[output_file].items)}]_vars

\* C19 witness: the loop has reloaded an input file after it was rewritten
\* (or has seen it go); the store and the output still hold a Record for a
\* source file that no input file on disk mentions any more.
C19_Witness ==
    /\ pc = "watching"
    /\ queue = <<>>
    /\ calls # <<>>
    /\ output_file = OutJson
    /\ \E k \in DOMAIN data :
            /\ k \notin KeysOnDisk
            /\ \E i \in DOMAIN fs[output_file].items : fs[output_file].items[i].file = k


\* the store after loading back what the Writer makes of m
Reingest(m, kord) ==
    add_entries_from_file(m, [fs EXCEPT ![output_file] = written(m, kord)], output_file)

\* C20: re-ingesting the tool's own output is a no-op.  Loading the file the
\* Writer produces from the store gives the store back, whatever order the
\* Records were written in; so an event for the output file, received while
\* the file is as the Writer left it (nothing else has changed it, or it holds
\* the store's Records), does not change the store.
C20_ReingestNoOp ==
    /\ [](\A kord \in Perms(Keys) : Reingest(data, kord) = data)
    /\ [][(RecvStep /\ Head(queue).tag = "event" /\ Head(queue).paths = <<output_file>>
                /\ (~foreign \/ \E k \in Perms(Keys) : fs[output_file] = written(data, k)))
            => data' = data]_vars

\* C20 witness: the output file is a watched input (the default names), the
\* loop has received the modify event of its own write and loaded the file,
\* and the store, with a Record that has an `output` field and one that has
\* none, is as it was.
C20_Witness ==
    /\ pc = "watching"
    /\ is_target(output_file)
    /\ Under(output_file, watched)
    /\ ~foreign
    /\ last = Event(ModifyData, <<output_file>>)
    /\ calls = << <<"load", output_file>>, <<"write", output_file>> >>
    /\ \E k1, k2 \in DOMAIN data : data[k1].output = None /\ data[k2].output # None
    /\ data = LastPerKey(GoodRecords(scanfs, found))

====
